---- MODULE Spec2Model ----
(***************************************************************************)
(* Model of the file-event pipeline of streamlit_file_events:              *)
(*   src/file_viewer.py   (the enhanced viewer)                            *)
(*   src/file_viewer_0.py (the first viewer)                               *)
(* A watchdog Observer thread pushes events into st.session_state's queue, *)
(* and each run of the Streamlit script (main) drains the queue into       *)
(* event_list, handles the Start/Stop buttons and displays the events.     *)
(***************************************************************************)
EXTENDS Integers, Sequences, FiniteSets, TLC

\* ------------------------------------------------------------------ bounds
MaxEvents == 3        \* raw events the probes deliver in one behaviour
MaxSessions == 2      \* observers started in one behaviour
MaxTicks == 3         \* clock advances in one behaviour
TicksPerSecond == 2   \* resolution of the wall clock (datetime.now())

\* ------------------------------------------------------------------ strings
\* A string is a sequence of tokens; a token stands for a run of characters.
\* "x in s" of Python (substring) is a contiguous-subsequence test.
IsSubstring(w, s) ==
    \E i \in 1..(Len(s) - Len(w) + 1) : SubSeq(s, i, i + Len(w) - 1) = w

\* The part of a path after its last "/" (pathlib's Path.name).
RECURSIVE BaseName(_)
BaseName(s) ==
    IF s = <<>> THEN <<>>
    ELSE IF s[Len(s)] = "/" THEN <<>>
    ELSE Append(BaseName(SubSeq(s, 1, Len(s) - 1)), s[Len(s)])

IgnoreList == { <<".DS_Store">>, <<".localized">> }

Home == <<"/", "home">>
TildeDownloads == <<"~", "/", "Downloads">>
HomeDownloads == <<"/", "home", "/", "Downloads">>
LocalizedDir == <<"/", "b", ".localized">>
GonePath == <<"/", "gone">>

\* os.path.expanduser: a leading "~" becomes the home directory.
expanduser(p) ==
    IF p # <<>> /\ p[1] = "~" THEN Home \o Tail(p) ELSE p

\* The directories of the file system (os.path.exists).
ExistingPaths == { HomeDownloads, LocalizedDir }
exists(p) == p \in ExistingPaths

\* What the user can type into the folder text input.
PathInputs == { TildeDownloads, LocalizedDir, <<>> }
\* The same with a directory that does not exist.
AllPathInputs == PathInputs \cup { GonePath }

\* Raw watchdog events under a watched directory: file name and is_directory.
RawNames == { <<"f.txt">>, <<".DS_Store">>, <<"x", ".DS_Store", ".bak">> }
RawEvents ==
    [name : RawNames, is_directory : {FALSE}, event_type : {"modified"}]
    \cup [name : {<<"sub">>}, is_directory : {TRUE}, event_type : {"modified"}]

\* The raw events of an ordinary file.
PlainFileEvents == { r \in RawEvents : r.name = <<"f.txt">> }

Programs == { "file_viewer", "file_viewer_0" }

NoTimestamp == -1     \* file_viewer_0 queues the raw event: no timestamp field
None == 0             \* st.session_state.observer = None
NoRaw == [ src_path |-> <<>>, is_directory |-> FALSE, put |-> FALSE ]

VARIABLES
    program,       \* which of the two scripts is running
    clock,         \* datetime.now(), in ticks
    ticks,         \* clock advances so far
    event_queue,   \* st.session_state.event_queue (queue.Queue)
    event_list,    \* st.session_state.event_list
    observer,      \* st.session_state.observer: index into probes, or None
    monitoring,    \* st.session_state.monitoring
    probes,        \* every Observer created so far: [path, state]
    folder_path,   \* value of the folder text input
    clicked,       \* the button click that caused the latest run
    rendered,      \* the button the last run rendered
    status,        \* st.success / st.error message of the current run
    pc,            \* position of the script run
    shown,         \* events the last display rendered
    shown_at,      \* clock value the last display read, -1 when none
    last_raw,      \* history: the last raw event a probe delivered
    pushed,        \* history: every event put into the queue, in put order
    initialised,   \* the session-state keys exist (a run has started before)
    began_monitoring, \* history: the monitoring flag when the latest run began
    drained,       \* history: events the drain in progress has removed
    raced          \* history: a push followed a removal of the drain in progress

vars == << program, clock, ticks, event_queue, event_list, observer,
           monitoring, probes, folder_path, clicked, rendered, status, pc,
           shown, shown_at, last_raw, pushed, initialised,
           began_monitoring, drained, raced >>

\* ------------------------------------------------------------------ clock
\* strftime('%Y-%m-%d %H:%M:%S'): the instant truncated to whole seconds.
strftime(t) == t \div TicksPerSecond
\* strptime of such a string: the instant at the start of that second.
strptime(s) == s * TicksPerSecond
timedelta(seconds) == seconds * TicksPerSecond

\* Amounts by which the clock advances between two steps: one tick (a
\* fraction of a second) or a number of seconds.
ClockSteps == { timedelta(300) }
\* The advances of the window scenarios: 10 s, 3 min 50 s, 6 min.
WindowClockSteps == { timedelta(s) : s \in {10, 230, 360} }
\* The advances of the sub-second scenarios: one tick, 5 min.
SubSecondClockSteps == { 1, timedelta(300) }

Tick(d) ==
    /\ ticks < MaxTicks
    /\ clock' = clock + d
    /\ ticks' = ticks + 1
    /\ UNCHANGED << program, event_queue, event_list, observer, monitoring,
                    probes, folder_path, clicked, rendered, status, pc,
                    shown, shown_at, last_raw, pushed, initialised,
                    began_monitoring, drained, raced >>

\* ------------------------------------------------------------------ probe
\* FileEventHandler.on_any_event's filter.
Suppressed(prog, src_path, is_directory) ==
    IF prog = "file_viewer"
    THEN is_directory \/ \E ignored \in IgnoreList : IsSubstring(ignored, src_path)
    ELSE is_directory

\* FileEventWrapper(event) (file_viewer) or the raw event (file_viewer_0).
\* id stands for the object's identity, probe for the observer that made it.
\* History fields: now is the instant datetime.now() returned (file_viewer
\* only: file_viewer_0 does not read the clock), is_directory the raw flag.
FileEventWrapper(prog, raw, src_path, now, id, probe) ==
    [ id |-> id,
      event_type |-> raw.event_type,
      src_path |-> src_path,
      timestamp |-> IF prog = "file_viewer" THEN strftime(now) ELSE NoTimestamp,
      probe |-> probe,
      now |-> IF prog = "file_viewer" THEN now ELSE NoTimestamp,
      is_directory |-> raw.is_directory ]

\* queue.Queue.put: enqueue at the tail.
QueuePutFront(q, e) == <<e>> \o q
QueuePut(q, e) == Append(q, e)

on_any_event(i, raw) ==
    /\ i \in 1..Len(probes)
    /\ probes[i].state \in {"running", "stopping"}
    /\ Len(pushed) < MaxEvents
    /\ LET src_path == probes[i].path \o <<"/">> \o raw.name
           id == Len(pushed) + 1
           e == FileEventWrapper(program, raw, src_path, clock, id, i)
           put == ~Suppressed(program, src_path, raw.is_directory)
       IN /\ last_raw' = [ src_path |-> src_path,
                           is_directory |-> raw.is_directory,
                           put |-> put ]
          /\ IF put
             THEN /\ event_queue' = QueuePut(event_queue, e)
                  /\ pushed' = Append(pushed, e)
                  /\ raced' = (raced \/ drained > 0)
             ELSE UNCHANGED << event_queue, pushed, raced >>
    /\ UNCHANGED << program, clock, ticks, event_list, observer, monitoring,
                    probes, folder_path, clicked, rendered, status, pc,
                    shown, shown_at, initialised, began_monitoring,
                    drained >>

\* The observer thread ends after observer.stop() has signalled it.
ProbeExit(i) ==
    /\ i \in 1..Len(probes)
    /\ probes[i].state = "stopping"
    /\ probes' = [probes EXCEPT ![i].state = "dead"]
    /\ UNCHANGED << program, clock, ticks, event_queue, event_list, observer,
                    monitoring, folder_path, clicked, rendered, status, pc,
                    shown, shown_at, last_raw, pushed, initialised,
                    began_monitoring, drained, raced >>

\* ------------------------------------------------------------------ script
Init ==
    /\ program \in Programs
    /\ clock = 0
    /\ ticks = 0
    /\ event_queue = <<>>
    /\ event_list = <<>>
    /\ observer = None
    /\ monitoring = FALSE
    /\ probes = <<>>
    /\ folder_path = IF program = "file_viewer" THEN TildeDownloads
                                                ELSE HomeDownloads
    /\ clicked = "none"
    /\ rendered = "none"
    /\ status = "none"
    /\ pc = "idle"
    /\ shown = <<>>
    /\ shown_at = -1
    /\ last_raw = NoRaw
    /\ pushed = <<>>
    /\ initialised = FALSE
    /\ began_monitoring = FALSE
    /\ drained = 0
    /\ raced = FALSE

\* The path main() works with after reading the text input.
\*   file_viewer:   folder_path = os.path.expanduser(folder_path)
\*   file_viewer_0: an empty input becomes the literal "~/Downloads"
ResolvedPath(prog, p) ==
    IF prog = "file_viewer" THEN expanduser(p)
    ELSE IF p = <<>> THEN TildeDownloads ELSE p

\* "if not folder_path or not os.path.exists(folder_path)": st.stop().
PathRejectedNever(prog, p) == FALSE
PathRejected(prog, p) ==
    LET r == ResolvedPath(prog, p)
    IN IF prog = "file_viewer" THEN r = <<>> \/ ~exists(r) ELSE ~exists(r)

\* queue.Queue.get on a non-empty queue: the head, and the rest.
QueueHeadLast(q) == q[Len(q)]
QueueHead(q) == Head(q)
QueueRestKeepsHead(q) == q
QueueRest(q) == Tail(q)
\* event_list.append(event)
ListPrepend(l, e) == <<e>> \o l
ListAppendEvicting(l, e) ==
    IF Len(l) >= 2 THEN Append(Tail(l), e) ELSE Append(l, e)
ListAppend(l, e) == Append(l, e)

\* The branch of the monitoring controls that renders the Start button.
ShowsStartButtonAlways(mon) == TRUE
ShowsStartButtonNever(mon) == FALSE
ShowsStartButton(mon) == ~mon

\* start_observer(path, event_queue): a new running Observer.
start_observer_unstarted(ps, path) ==
    Append(ps, [path |-> path, state |-> "dead"])
start_observer(ps, path) == Append(ps, [path |-> path, state |-> "running"])

\* observer.stop(): signal the observer thread to end.
ObserverStop(ps, i) == [ps EXCEPT ![i].state = "stopping"]

\* observer.join() returns once the observer thread has ended.
JoinReturnsAtOnce(ps, i) == TRUE
JoinReturns(ps, i) == ps[i].state = "dead"

\* The monitoring controls ("with col1:") up to the call of observer.join():
\* the session state they leave, the button they render, the message they
\* show, and whether the run is now inside observer.join().
MonitoringControls(mon, obs, ps, click, path) ==
    IF ShowsStartButton(mon)
    THEN IF click = "start"
         THEN [ monitoring |-> TRUE, observer |-> Len(ps) + 1,
                probes |-> start_observer(ps, path), status |-> "started",
                rendered |-> "start", joining |-> FALSE ]
         ELSE [ monitoring |-> mon, observer |-> obs, probes |-> ps,
                status |-> "none", rendered |-> "start", joining |-> FALSE ]
    ELSE IF click = "stop"
         THEN IF obs # None
              THEN [ monitoring |-> mon, observer |-> obs,
                     probes |-> ObserverStop(ps, obs), status |-> "none",
                     rendered |-> "stop", joining |-> TRUE ]
              ELSE [ monitoring |-> FALSE, observer |-> obs, probes |-> ps,
                     status |-> "stopped", rendered |-> "stop",
                     joining |-> FALSE ]
         ELSE [ monitoring |-> mon, observer |-> obs, probes |-> ps,
                status |-> "none", rendered |-> "stop", joining |-> FALSE ]

recent_events_before(l, now, window) ==
    SelectSeq(l, LAMBDA event : strptime(event.timestamp) <= now - window)
\* The events of l whose parsed timestamp is at or after now - window.
recent_events(l, now, window) ==
    SelectSeq(l, LAMBDA event : strptime(event.timestamp) >= now - window)

\* display_recent_events (file_viewer): the last 5 minutes of event_list;
\* display_new_events (file_viewer_0): all of event_list.
DisplayedEvents(prog, l, now) ==
    IF prog = "file_viewer"
    THEN recent_events(l, now, timedelta(5 * 60))
    ELSE l

\* The display at the end of a run; the run is over.
Display ==
    /\ shown' = DisplayedEvents(program, event_list', clock)
    /\ shown_at' = clock
    /\ pc' = "idle"

\* main() from the folder validation on, for the session's monitoring flag
\* and observer, text input p and click: an
\* invalid path ends the run (st.error, st.stop) before any button or event
\* table is rendered; otherwise the monitoring controls run, and then
\*   - the run waits in observer.join(), or
\*   - file_viewer_0 drains the queue (when monitoring), or
\*   - the events are displayed.
\* These steps read and write only what the script thread owns.
ValidateAndControl(mon, obs, p, click) ==
    /\ folder_path' = p
    /\ clicked' = click
    /\ IF PathRejected(program, p)
       THEN /\ status' = "invalid_path"
            /\ rendered' = "none"
            /\ shown' = <<>>
            /\ shown_at' = -1
            /\ pc' = "idle"
            /\ monitoring' = mon
            /\ observer' = obs
            /\ UNCHANGED probes
       ELSE LET c == MonitoringControls(mon, obs, probes, click,
                                        ResolvedPath(program, p))
            IN /\ monitoring' = c.monitoring
               /\ observer' = c.observer
               /\ probes' = c.probes
               /\ status' = c.status
               /\ rendered' = c.rendered
               /\ IF c.joining
                  THEN /\ pc' = "join"
                       /\ shown' = <<>>
                       /\ shown_at' = -1
                  ELSE IF program = "file_viewer_0" /\ c.monitoring
                  THEN /\ pc' = "drain"
                       /\ shown' = <<>>
                       /\ shown_at' = -1
                  ELSE Display

\* "if 'event_list' not in st.session_state: st.session_state.event_list = []"
\* at the top of the script, executed by every run.
InitEventListAlways(present, l) == <<>>
InitEventList(present, l) == IF present THEN l ELSE <<>>
\* The same for event_queue, observer and monitoring (file_viewer_0 never
\* sets monitoring here and reads a missing key as false).
InitEventQueue(present, q) == IF present THEN q ELSE <<>>
InitObserver(present, obs) == IF present THEN obs ELSE None
InitMonitoring(present, mon) == IF present THEN mon ELSE FALSE

\* "if st.session_state.monitoring: check_events_and_update()" before the
\* folder input (file_viewer; file_viewer_0 drains after the controls).
DrainsFirstAlways(prog, mon) == prog = "file_viewer"
DrainsFirst(prog, mon) == prog = "file_viewer" /\ mon

\* A run of the script starts: the autorefresh timer fires, the user edits
\* the text input (p) or clicks the button the last run rendered (click).
\* file_viewer drains first when monitoring; otherwise the run goes on with
\* the folder validation.
Rerun(p, click) ==
    /\ pc = "idle"
    /\ click \in {"none", rendered}
    /\ click = "start" /\ ~monitoring => Len(probes) < MaxSessions
    /\ initialised' = TRUE
    /\ event_list' = InitEventList(initialised, event_list)
    /\ event_queue' = InitEventQueue(initialised, event_queue)
    /\ LET mon == InitMonitoring(initialised, monitoring)
           obs == InitObserver(initialised, observer)
       IN /\ began_monitoring' = mon
          /\ drained' = 0
          /\ raced' = FALSE
          /\ IF DrainsFirst(program, mon)
             THEN /\ pc' = "drain"
                  /\ folder_path' = p
                  /\ clicked' = click
                  /\ status' = "none"
                  /\ shown' = <<>>
                  /\ shown_at' = -1
                  /\ monitoring' = mon
                  /\ observer' = obs
                  /\ UNCHANGED << probes, rendered >>
             ELSE ValidateAndControl(mon, obs, p, click)
    /\ UNCHANGED << program, clock, ticks, last_raw, pushed >>

\* event_queue.empty()
QueueEmptyNever(q) == FALSE
QueueEmpty(q) == q = <<>>

\* One iteration of "while not event_queue.empty()": get, append.
DrainStep ==
    /\ pc = "drain"
    /\ ~QueueEmpty(event_queue)
    /\ event_list' = ListAppend(event_list, QueueHead(event_queue))
    /\ event_queue' = QueueRest(event_queue)
    /\ drained' = drained + 1
    /\ UNCHANGED << program, clock, ticks, observer, monitoring, probes,
                    folder_path, clicked, rendered, status, pc, shown,
                    shown_at, last_raw, pushed, initialised,
                    began_monitoring, raced >>

\* The same iteration in two steps, so that the probe thread can run between
\* the loop test and the get. DrainTest: "while not event_queue.empty():"
\* finds an event queued and the run enters the loop body.
DrainTest ==
    /\ pc = "drain"
    /\ ~QueueEmpty(event_queue)
    /\ pc' = "get"
    /\ UNCHANGED << program, clock, ticks, event_queue, event_list, observer,
                    monitoring, probes, folder_path, clicked, rendered,
                    status, shown, shown_at, last_raw, pushed, initialised,
                    began_monitoring, drained, raced >>

\* DrainGet, the loop body: event = event_queue.get(), which blocks while
\* the queue is empty, and event_list.append(event); then the loop test.
DrainGet ==
    /\ pc = "get"
    /\ event_queue # <<>>
    /\ event_list' = ListAppend(event_list, QueueHead(event_queue))
    /\ event_queue' = QueueRest(event_queue)
    /\ drained' = drained + 1
    /\ pc' = "drain"
    /\ UNCHANGED << program, clock, ticks, observer, monitoring, probes,
                    folder_path, clicked, rendered, status, shown,
                    shown_at, last_raw, pushed, initialised,
                    began_monitoring, raced >>

\* The loop test finds the queue empty: check_events_and_update returns.
\* file_viewer goes on with the folder validation, file_viewer_0 displays.
DrainExit ==
    /\ pc = "drain"
    /\ QueueEmpty(event_queue)
    /\ drained' = 0
    /\ raced' = FALSE
    /\ UNCHANGED << event_queue, event_list, initialised, began_monitoring >>
    /\ IF program = "file_viewer"
       THEN ValidateAndControl(monitoring, observer, folder_path, clicked)
       ELSE /\ Display
            /\ UNCHANGED << monitoring, observer, probes, folder_path, status,
                            rendered, clicked >>
    /\ UNCHANGED << program, clock, ticks, last_raw, pushed >>

\* stop_observer returns; then observer = None, monitoring = False, and the
\* run goes on to the display (file_viewer_0 skips the drain: not monitoring).
Join ==
    /\ pc = "join"
    /\ JoinReturns(probes, observer)
    /\ UNCHANGED << event_queue, event_list, initialised, began_monitoring,
                    drained, raced >>
    /\ observer' = None
    /\ monitoring' = FALSE
    /\ status' = "stopped"
    /\ Display
    /\ UNCHANGED << program, clock, ticks, probes, folder_path, clicked,
                    rendered, last_raw, pushed >>

\* ------------------------------------------------------------------ claims
IsPrefix(a, b) == Len(a) <= Len(b) /\ SubSeq(b, 1, Len(a)) = a
Occurrences(e, seq) == Cardinality({ k \in 1..Len(seq) : seq[k] = e })
AllEvents == { pushed[k] : k \in 1..Len(pushed) }

\* C2: under any interleaving of pushes (on_any_event) and drains
\* (check_events_and_update), the history list is at every moment a prefix of
\* the sequence of events in push order.
C2_HistoryIsPrefixOfPushOrder == IsPrefix(event_list, pushed)

\* A drain is under way that has already ingested an event of the first
\* observer, while an event pushed later is still queued.
C2_PushDuringDrain ==
    /\ pc = "drain"
    /\ Len(event_list) >= 1
    /\ Len(event_queue) >= 1
    /\ Len(pushed) = MaxEvents

\* Every pushed event occurs once in the queue and the history together, and
\* these hold nothing else.
C3_ExactlyOnce ==
    /\ \A e \in AllEvents :
          Occurrences(e, event_list) + Occurrences(e, event_queue) = 1
    /\ \A k \in 1..Len(event_list) : event_list[k] \in AllEvents
    /\ \A k \in 1..Len(event_queue) : event_queue[k] \in AllEvents

\* C3: every pushed event is in exactly one of the queue and the history, an
\* event of the history was taken from the queue once (it occurs once), a
\* drain ends only on an empty queue, and from an empty queue nothing is
\* ingested (so a second drain with no push in between ingests nothing).
C3_NoLossNoDuplication ==
    /\ []C3_ExactlyOnce
    /\ [][pc = "drain" /\ pc' # "drain" => event_queue' = <<>>]_vars
    /\ [][event_queue = <<>> => event_list' = event_list]_vars

\* A drain finds the queue empty while the history already holds every
\* event pushed so far (the drains before it ingested them).
C3_DrainOfEmptyQueue ==
    /\ pc = "drain"
    /\ event_queue = <<>>
    /\ Len(event_list) >= 2
    /\ Len(event_list) = Len(pushed)

\* A run of the script comes to its end with the display in this step,
\* having drained whatever was queued (a run that starts while no session is
\* active has nothing to drain: it is one step).
PollTickCompletes ==
    /\ \/ \E p \in PathInputs, click \in {"none", "start", "stop"} :
             Rerun(p, click)
       \/ DrainExit
    /\ pc' = "idle"
    /\ shown_at' # -1

\* C1: when a poll tick completes after the last push, recent_events with a
\* window that covers every event returns exactly the events pushed in the
\* session (the latest observer's), in push order.
C1_RecentEventsAreSessionEvents ==
    [][PollTickCompletes /\ Len(probes') >= 1 =>
          recent_events(event_list', shown_at', shown_at' + timedelta(1))
            = SelectSeq(pushed', LAMBDA e : e.probe = Len(probes'))]_vars

\* The observers whose thread has not ended.
AliveProbes == { i \in 1..Len(probes) : probes[i].state # "dead" }
AllProbesDead == AliveProbes = {}

\* The latest run handled a click on Start while a session was active: it
\* took the branch that renders the Stop button.
StartRequestWhileActive ==
    pc = "idle" /\ clicked = "start" /\ rendered = "stop"

\* At most one observer thread is alive, and an active session has one.
C4_SingleProbe ==
    /\ Cardinality(AliveProbes) <= 1
    /\ monitoring => observer # None
\* A step taken while the session stays active creates no observer and
\* leaves the session's observer and its path as they were.
C4_SessionKept ==
    monitoring /\ monitoring' =>
        /\ Len(probes') = Len(probes)
        /\ observer' = observer
        /\ probes'[observer].path = probes[observer].path

C6_StopJoinsProbe ==
    /\ [](~monitoring => AllProbesDead)
    /\ [][~monitoring /\ ~monitoring' =>
             pushed' = pushed /\ last_raw' = last_raw]_vars
    /\ [][Len(probes') > Len(probes) => AllProbesDead]_vars

\* stop has returned after the observer pushed an event while shutting down.
C6_StoppedWithQueuedEvent ==
    /\ pc = "idle"
    /\ ~monitoring
    /\ status = "stopped"
    /\ event_queue # <<>>

\* C7: recent_events(window) at time T returns, in arrival order, exactly
\* the retained events whose capture instant is at or after T - window.
C7_WindowByCaptureInstant ==
    \A w \in { timedelta(10), timedelta(5 * 60) } :
        recent_events(event_list, clock, w)
          = SelectSeq(event_list, LAMBDA e : e.now >= clock - w)

\* Three retained events captured at T - 10 min, T - 4 min and T - 10 s, and
\* a display at T.
C8_ThreeEvents ==
    /\ shown_at # -1
    /\ Len(event_list) = 3
    /\ strptime(event_list[1].timestamp) = shown_at - timedelta(10 * 60)
    /\ strptime(event_list[2].timestamp) = shown_at - timedelta(4 * 60)
    /\ strptime(event_list[3].timestamp) = shown_at - timedelta(10)

\* C8 as stated: with events captured at T - 10 s, T - 4 min and T - 10 min,
\* the 300 s window at T returns only the T - 4 min event.
C8_OnlyFourMinuteEvent ==
    C8_ThreeEvents => shown = << event_list[2] >>

\* C8 as amended: with events captured at T - 10 s, T - 4 min and T - 10 min,
\* the 300 s window at T returns the T - 4 min event and the T - 10 s event,
\* in arrival order, and not the T - 10 min event.
C8_FourMinuteAndTenSecondEvents ==
    C8_ThreeEvents => shown = << event_list[2], event_list[3] >>

\* C9: a raw event for .DS_Store, and a directory event, is never pushed, so
\* it is never queued, never in the history and never displayed.
C9_IgnoredNeverPushed ==
    /\ \A e \in AllEvents :
          ~e.is_directory /\ BaseName(e.src_path) # <<".DS_Store">>
    /\ last_raw.is_directory \/ BaseName(last_raw.src_path) = <<".DS_Store">>
          => ~last_raw.put

\* C10: a raw event is suppressed if and only if it is a directory event or
\* its file name equals an ignore-list entry; every other raw event is
\* pushed.
C10_SuppressedIffIgnoredName ==
    last_raw # NoRaw =>
        (last_raw.put <=>
            ~(last_raw.is_directory \/ BaseName(last_raw.src_path) \in IgnoreList))

\* A run of the script that handles a click on the Stop button.
StopRequest == \E p \in AllPathInputs : Rerun(p, "stop")

\* C11: a stop request while no session is active (monitoring is false) is a
\* no-op: the run ends with the monitoring flag, the observer handle, the
\* observers, the queue and the history as they were, and the only message it
\* can show is the one for an invalid folder input, never one of the stop;
\* so after two stop requests in a row the script is still idle.
C11_StopWhileIdleIsNoOp ==
    [][StopRequest /\ ~monitoring =>
          /\ UNCHANGED << monitoring, observer, probes, event_queue,
                          event_list >>
          /\ observer' = None
          /\ pc' = "idle"
          /\ status' = IF PathRejected(program, folder_path')
                       THEN "invalid_path" ELSE "none"]_vars

\* A second stop request has been handled: the run began with monitoring
\* false after an earlier stop had ended a session.
C11_SecondStop ==
    /\ pc = "idle"
    /\ clicked = "stop"
    /\ ~began_monitoring
    /\ status = "none"
    /\ Len(probes) >= 1
    /\ AllProbesDead

\* A run of the script that handles a click on the Start button.
StartRequest == \E p \in AllPathInputs : Rerun(p, "start")

\* C12: a start request while no session is active, for a folder input whose
\* path does not exist, fails without side effects: the run ends at the
\* folder validation with its error message, no observer is created, and
\* monitoring (false), the observer handle (None), the queue and the history
\* are as they were.
C12_StartForMissingPathFails ==
    [][StartRequest /\ ~monitoring
         /\ ~exists(ResolvedPath(program, folder_path')) =>
          /\ UNCHANGED << monitoring, observer, probes, event_queue,
                          event_list >>
          /\ observer' = None
          /\ pc' = "idle"
          /\ status' = "invalid_path"]_vars

\* A start request for the missing directory has been handled while events
\* of an earlier session were still queued.
C12_StartForGonePath ==
    /\ pc = "idle"
    /\ clicked = "start"
    /\ folder_path = GonePath
    /\ ~began_monitoring
    /\ event_queue # <<>>
    /\ event_list # <<>>

C14_SessionsIndependent ==
    /\ [][event_list' # event_list /\ event_queue # <<>> =>
            Head(event_queue).probe = observer]_vars
    /\ [][monitoring /\ ~monitoring' => event_queue' = <<>>]_vars

\* C15: between two runs of the script, monitoring is true exactly when the
\* observer handle is set and its thread is alive: with monitoring true the
\* handle names a running observer, the only one alive; with monitoring
\* false the handle is None and no observer thread is alive.
C15_FlagMatchesProbe ==
    pc = "idle" =>
        /\ monitoring <=> observer # None
        /\ monitoring =>
              /\ observer \in 1..Len(probes)
              /\ probes[observer].state = "running"
              /\ AliveProbes = { observer }
        /\ ~monitoring => AliveProbes = {}

\* Between two runs, the second session is active after the first one was
\* stopped.
C15_SecondSessionRunning ==
    /\ pc = "idle"
    /\ monitoring
    /\ observer = 2
    /\ probes[1].state = "dead"

IsSuffix(a, b) ==
    Len(a) <= Len(b) /\ SubSeq(b, Len(b) - Len(a) + 1, Len(b)) = a

\* C16: with a clock that never goes back, the history is time-ordered: the
\* capture instants and the stored timestamps are non-decreasing in list
\* order, across pushes, drains and stop/start cycles; so the result of a
\* window query, for any window and for the one the display uses, is a
\* contiguous suffix of the history.
C16_HistoryTimeOrdered ==
    /\ \A i, j \in 1..Len(event_list) :
          i <= j => /\ event_list[i].timestamp <= event_list[j].timestamp
                    /\ event_list[i].now <= event_list[j].now
    /\ \A seconds \in {0, 1, 300, 600} :
          IsSuffix(recent_events(event_list, clock, timedelta(seconds)),
                   event_list)
    /\ shown_at # -1 => IsSuffix(shown, event_list)

\* The display of the second session shows the event of that session and
\* leaves out the older event of the first: a proper, non-empty suffix.
C16_WindowIsProperSuffix ==
    /\ pc = "idle"
    /\ shown_at # -1
    /\ Len(shown) >= 1
    /\ Len(shown) < Len(event_list)
    /\ event_list[1].probe = 1
    /\ event_list[Len(event_list)].probe = 2

\* C17: the history is growth-only: every step (a push, a step of a run, a
\* window query of the display, a start request that is ignored) leaves the
\* previous history as a prefix of the new one, and the history changes only
\* by the drain appending one event to it while the session is active.
C17_HistoryGrowthOnly ==
    /\ [][IsPrefix(event_list, event_list')]_vars
    /\ [][event_list' # event_list =>
            /\ pc = "drain"
            /\ monitoring
            /\ Len(event_list') = Len(event_list) + 1]_vars

\* A run of an active session has drained, ignored a start request and
\* displayed, with two events in the history.
C17_IgnoredStartKeepsHistory ==
    /\ pc = "idle"
    /\ began_monitoring
    /\ monitoring
    /\ clicked = "start"
    /\ shown_at # -1
    /\ Len(event_list) >= 2

\* C18: a stop request made while a session is active leads to the idle
\* state with the observer joined, whatever the folder input is: when a run
\* that began with monitoring true and handled a Stop click has ended,
\* monitoring is false, the observer handle is None and no observer thread
\* is alive.
C18_StopLeadsToIdle ==
    pc = "idle" /\ clicked = "stop" /\ began_monitoring =>
        /\ ~monitoring
        /\ observer = None
        /\ AllProbesDead

\* The run is inside the drain loop: at the loop test or before the get.
InDrainLoop == pc \in {"drain", "get"}

IdleTickStepKeeps ==
    /\ event_list' = event_list
    /\ IsPrefix(event_queue, event_queue')

\* C20 (as stated): a run of the script that begins while monitoring is
\* false performs no drain: none of its steps changes the history or removes
\* an event from the queue.
C20_IdleTickDoesNotDrain ==
    [][~began_monitoring' => IdleTickStepKeeps]_vars

\* C20: a run of the script that begins while monitoring is false performs
\* no drain, unless it is a run of file_viewer_0 that handles a Start click
\* (file_viewer_0 drains after the controls, so the run that starts a session
\* drains as well); the history changes only while the monitoring flag is
\* true.
C20_IdleTickDrainsOnlyAfterStart ==
    /\ [][~began_monitoring'
            /\ ~(program = "file_viewer_0" /\ clicked' = "start")
            => IdleTickStepKeeps]_vars
    /\ [][event_list' # event_list => monitoring]_vars

\* A run that began with monitoring false has ended with its display while
\* events of the stopped session were still queued.
C20_IdleTickWithQueuedEvents ==
    /\ pc = "idle"
    /\ ~began_monitoring
    /\ ~monitoring
    /\ shown_at # -1
    /\ event_queue # <<>>
    /\ event_list # <<>>

\* One step of the system, with the clock advances, raw events and text
\* inputs drawn from the given sets.
Step(steps, raws, inputs) ==
    \/ \E d \in steps : Tick(d)
    \/ \E i \in 1..MaxSessions, raw \in raws : on_any_event(i, raw)
    \/ \E i \in 1..MaxSessions : ProbeExit(i)
    \/ \E p \in inputs, click \in {"none", "start", "stop"} : Rerun(p, click)
    \/ DrainStep
    \/ DrainExit
    \/ Join

Next == Step(ClockSteps, RawEvents, PathInputs)

\* file_viewer.py
InitViewer == Init /\ program = "file_viewer"
Spec == InitViewer /\ [][Next]_vars

\* file_viewer_0.py
InitViewer0 == Init /\ program = "file_viewer_0"
Spec0 == InitViewer0 /\ [][Next]_vars

\* Either script
SpecAll == Init /\ [][Next]_vars

\* The window scenarios: file_viewer watching one directory, ordinary files,
\* with the finer clock advances.
InitWindow == InitViewer
NextWindow == Step(WindowClockSteps, { r \in RawEvents : r.name = <<"f.txt">> },
                   { TildeDownloads })
SpecWindow == InitWindow /\ [][NextWindow]_vars

\* The sub-second scenarios: the same, with the clock leaving whole seconds.
NextSubSecond == Step(SubSecondClockSteps,
                      { r \in RawEvents : r.name = <<"f.txt">> },
                      { TildeDownloads })
SpecSubSecond == InitWindow /\ [][NextSubSecond]_vars


\* Both scripts with ordinary files only and every text input, a missing
\* directory included.
NextSessions == Step(ClockSteps, PlainFileEvents, AllPathInputs)
SpecSessions == Init /\ [][NextSessions]_vars

\* The text inputs that name an existing directory.
ExistingInputs == { TildeDownloads, LocalizedDir }

\* The drain loop with the loop test and the get as separate steps. The
\* script thread is scheduled: a run inside the loop goes on. The clock,
\* which the loop does not read, stands still.
NextDrainLoop ==
    \/ \E i \in 1..MaxSessions, raw \in PlainFileEvents : on_any_event(i, raw)
    \/ \E i \in 1..MaxSessions : ProbeExit(i)
    \/ \E p \in ExistingInputs, click \in {"none", "start", "stop"} :
          Rerun(p, click)
    \/ DrainTest
    \/ DrainGet
    \/ DrainExit
    \/ Join
SpecDrainLoop ==
    /\ Init
    /\ [][NextDrainLoop]_vars
    /\ WF_vars(DrainTest)
    /\ WF_vars(DrainGet)
    /\ WF_vars(DrainExit)
====
